---- MODULE Spec2Model ----
(***************************************************************************)
(* Model of app.py, the Streamlit dashboard "Artist job time distributions *)
(* (bucketed)".  One behaviour is one browser session: a sequence of       *)
(* script runs over two CSV files that do not change during the session.   *)
(* A script run is the top-to-bottom execution of app.py; pc is the place  *)
(* the run has reached.                                                    *)
(***************************************************************************)
EXTENDS Integers, Sequences, FiniteSets, TLC

\* Bound: total number of rows in the two CSV files together.
MaxRows == 2

\* ------------------------------------------------------------------------
\* Constants of the program
\* ------------------------------------------------------------------------
BUCKET_ORDER ==
    << "00-10", "11-20", "21-30", "31-40", "41-50",
       "51-60", "61-70", "71-80", "81-90", "91-100", "z100+" >>

BUCKET_ORDER_DISPLAY ==
    [k \in 1..Len(BUCKET_ORDER) |->
        IF BUCKET_ORDER[k] = "z100+" THEN "100+" ELSE BUCKET_ORDER[k]]

COMPLETE_CSV == "time_to_complete.csv"
START_CSV == "time_to_start.csv"

\* keys of the DATASETS dict, in insertion order
DATASETS == << "Time to complete", "Time to start" >>

\* st.secrets["APP_PASSWORD"]
APP_PASSWORD == "secret"

\* ------------------------------------------------------------------------
\* Inputs
\* ------------------------------------------------------------------------
\* what the viewer may have typed into the password box
PasswordInputs == {"", "guess", APP_PASSWORD}

\* artist names occurring in the files, listed in ascending (sorted) order
ArtistOrder == << "Ann", "Bob" >>

\* bucket cells occurring in the files: the first and the last bucket of
\* BUCKET_ORDER and one value that is no bucket code
RawBuckets == {"00-10", "z100+", "unknown-code"}

\* jobs_count cells occurring in the files: numbers, and a cell that is not
\* a number (text, or an empty cell that read_csv yields as NaN)
RawCounts ==
    { [kind |-> "num", val |-> -1],
      [kind |-> "num", val |-> 2],
      [kind |-> "nan", val |-> 0] }

RawRows ==
    [artist : {ArtistOrder[k] : k \in 1..Len(ArtistOrder)},
     bucket : RawBuckets,
     jobs_count : RawCounts]

RawTables == UNION {[1..n -> RawRows] : n \in 0..MaxRows}

\* a CSV file on disk: absent, present without the three columns, or a table
FileStates ==
    { [status |-> "missing", rows |-> << >>],
      [status |-> "noschema", rows |-> << >>] }
    \cup { [status |-> "ok", rows |-> t] : t \in RawTables }

\* ------------------------------------------------------------------------
\* Helpers
\* ------------------------------------------------------------------------
Range(s) == {s[k] : k \in 1..Len(s)}

\* Series.sum() over the jobs_count column
RECURSIVE SumJobs(_)
SumJobs(rows) ==
    IF rows = << >> THEN 0
    ELSE Head(rows).jobs_count + SumJobs(Tail(rows))

\* the missing value of pandas (NaN category / NaN number)
NaN == "NaN"

\* a float held as an exact fraction num/den, den > 0
Float(n, d) == IF d < 0 THEN [num |-> -n, den |-> -d] ELSE [num |-> n, den |-> d]

\* format/round of the float p * scale / 1 to an integer number of
\* 1/scale units, ties to even (f"{x:.1f}" is scale 10, round(x, 2) is 100)
RoundScaled(p, scale) ==
    LET n == p.num * scale
        d == p.den
        q == (2 * n + d) \div (2 * d)
        tie == (2 * n + d) % (2 * d) = 0
    IN IF tie /\ q % 2 = 1 THEN q - 1 ELSE q

\* ------------------------------------------------------------------------
\* load_dataset
\* ------------------------------------------------------------------------
\* pd.to_numeric(errors="coerce").fillna(0).astype(int)
CoerceJobsCount(cell) ==
    IF cell.kind = "num" THEN cell.val ELSE 0

\* faulty variant: a value outside the categories lands in the last category
Categorical_Clamp(bucket) ==
    IF bucket \in Range(BUCKET_ORDER) THEN bucket ELSE "z100+"

\* pd.Categorical(values, categories=BUCKET_ORDER, ordered=True)
Categorical(bucket) ==
    IF bucket \in Range(BUCKET_ORDER) THEN bucket ELSE NaN

NoException == [exc |-> "none", path |-> "", df |-> << >>]

\* faulty variant: the column check is left out
LoadDataset_NoSchemaCheck(csv_path, file) ==
    IF file.status = "missing"
    THEN [exc |-> "FileNotFoundError", path |-> csv_path, df |-> << >>]
    ELSE [exc |-> "none", path |-> csv_path,
          df |-> [k \in 1..Len(file.rows) |->
                    [artist |-> file.rows[k].artist,
                     bucket |-> Categorical(file.rows[k].bucket),
                     jobs_count |-> CoerceJobsCount(file.rows[k].jobs_count)]]]

LoadDataset(csv_path, file) ==
    IF file.status = "missing"
    THEN [exc |-> "FileNotFoundError", path |-> csv_path, df |-> << >>]
    ELSE IF file.status = "noschema"
    THEN [exc |-> "ValueError", path |-> csv_path, df |-> << >>]
    ELSE [exc |-> "none", path |-> csv_path,
          df |-> [k \in 1..Len(file.rows) |->
                    [artist |-> file.rows[k].artist,
                     bucket |-> Categorical(file.rows[k].bucket),
                     jobs_count |-> CoerceJobsCount(file.rows[k].jobs_count)]]]

\* ------------------------------------------------------------------------
\* ensure_all_buckets, add_percent_share, build_chart
\* ------------------------------------------------------------------------
\* rows of the left merge for the buckets BUCKET_ORDER[k..]: every right row
\* with the key, in the right frame's order, or one row with NaN -> 0
RECURSIVE MergeLeft(_, _)
MergeLeft(k, artist_data) ==
    IF k > Len(BUCKET_ORDER) THEN << >>
    ELSE LET b == BUCKET_ORDER[k]
             m == SelectSeq(artist_data, LAMBDA r : r.bucket = b)
         IN (IF m = << >>
             THEN << [bucket |-> b, jobs_count |-> 0] >>
             ELSE [j \in 1..Len(m) |->
                     [bucket |-> b, jobs_count |-> m[j].jobs_count]])
            \o MergeLeft(k + 1, artist_data)

\* faulty variant: only the first record of a bucket is kept
EnsureAllBuckets_FirstMatch(artist_data) ==
    [k \in 1..Len(BUCKET_ORDER) |->
        LET m == SelectSeq(artist_data, LAMBDA r : r.bucket = BUCKET_ORDER[k])
        IN [bucket |-> BUCKET_ORDER[k],
            jobs_count |-> IF m = << >> THEN 0 ELSE m[1].jobs_count]]

EnsureAllBuckets(artist_data) == MergeLeft(1, artist_data)

\* the frame built when the artist has no rows in the dataset
ZeroFrame ==
    [k \in 1..Len(BUCKET_ORDER) |-> [bucket |-> BUCKET_ORDER[k], jobs_count |-> 0]]

\* faulty variant: the factor 100 is forgotten
PctShare_Fraction(jobs_count, total) ==
    IF total > 0 THEN Float(jobs_count, total) ELSE Float(0, 1)

PctShare(jobs_count, total) ==
    IF total > 0 THEN Float(jobs_count * 100, total) ELSE Float(0, 1)

AddPercentShare(frame) ==
    LET total == SumJobs(frame)
    IN [k \in 1..Len(frame) |->
          LET pct == PctShare(frame[k].jobs_count, total)
          IN [bucket |-> frame[k].bucket,
              jobs_count |-> frame[k].jobs_count,
              pct_share |-> pct,
              label |-> [count |-> frame[k].jobs_count,
                         tenths |-> RoundScaled(pct, 10)],
              bucket_label |-> IF frame[k].bucket = "z100+" THEN "100+"
                               ELSE frame[k].bucket]]

\* the bars handed to px.bar: x, y and text of every row of plot_df
BuildChart(plot_df, artist, dataset_label) ==
    [title |-> << dataset_label, artist >>,
     bars |-> [k \in 1..Len(plot_df) |->
                 [x |-> plot_df[k].bucket_label,
                  y |-> plot_df[k].jobs_count,
                  text |-> plot_df[k].label,
                  customdata |-> plot_df[k].pct_share]]]

NoChart == [title |-> << "", "" >>, bars |-> << >>]

\* ------------------------------------------------------------------------
\* State
\* ------------------------------------------------------------------------
VARIABLES
    files,                  \* the two CSV files, by path
    authed,                 \* st.session_state.authed
    authed_at_start,        \* value of authed when the current run began
    pw, pressed,            \* password box text, "Enter" button of the run
    pc,                     \* position of the current script run
    rendered,               \* UI elements the current run has drawn
    error,                  \* exception shown by st.error(str(e))
    df_complete, df_start,  \* loaded frames
    selected_dataset_name, selected_artist,
    artist_df,              \* the series of the selected artist
    total_jobs, over_100, share,   \* the three metrics
    i,                      \* loop variable of the animation
    chart,                  \* figure in the placeholder
    table_df                \* frame in the expander

vars == << files, authed, authed_at_start, pw, pressed, pc, rendered, error,
           df_complete, df_start, selected_dataset_name, selected_artist,
           artist_df, total_jobs, over_100, share, i, chart, table_df >>

NoShare == [kind |-> "none", tenths |-> 0]

\* values of the script's globals before the run has assigned them
FreshRun ==
    /\ rendered' = {}
    /\ error' = NoException
    /\ df_complete' = << >>
    /\ df_start' = << >>
    /\ selected_dataset_name' = ""
    /\ selected_artist' = "None"
    /\ artist_df' = << >>
    /\ total_jobs' = 0
    /\ over_100' = 0
    /\ share' = NoShare
    /\ i' = 0
    /\ chart' = NoChart
    /\ table_df' = << >>

Init ==
    /\ \E c \in FileStates, s \in FileStates :
          /\ Len(c.rows) + Len(s.rows) <= MaxRows
          /\ files = [x \in {COMPLETE_CSV, START_CSV} |->
                        IF x = COMPLETE_CSV THEN c ELSE s]
    /\ authed = FALSE
    /\ authed_at_start = FALSE
    /\ pw = ""
    /\ pressed = FALSE
    /\ pc = "start"
    /\ rendered = {}
    /\ error = NoException
    /\ df_complete = << >>
    /\ df_start = << >>
    /\ selected_dataset_name = ""
    /\ selected_artist = "None"
    /\ artist_df = << >>
    /\ total_jobs = 0
    /\ over_100 = 0
    /\ share = NoShare
    /\ i = 0
    /\ chart = NoChart
    /\ table_df = << >>

\* ------------------------------------------------------------------------
\* Script run
\* ------------------------------------------------------------------------
\* a widget interaction (or page reload) starts the script again
NewRun ==
    /\ pc \in {"stopped", "done"}
    /\ pc' = "start"
    /\ authed_at_start' = authed
    /\ FreshRun
    /\ UNCHANGED << files, authed, pw, pressed >>

\* faulty variant: "Enter" opens the wall whatever was typed
PasswordWall_AnyEnter ==
    /\ pc = "start"
    /\ ~authed
    /\ \E p \in PasswordInputs, b \in BOOLEAN :
          /\ pw' = p
          /\ pressed' = b
          /\ IF b
             THEN /\ authed' = TRUE
                  /\ authed_at_start' = TRUE
                  /\ pc' = "start"
                  /\ rendered' = {}
             ELSE /\ authed' = authed
                  /\ authed_at_start' = authed_at_start
                  /\ pc' = "stopped"
                  /\ rendered' = {"password_prompt"}
    /\ UNCHANGED << files, error, df_complete, df_start,
                    selected_dataset_name, selected_artist, artist_df,
                    total_jobs, over_100, share, i, chart, table_df >>

\* password wall: prompt, compare on "Enter", st.rerun() or st.stop()
PasswordWall ==
    /\ pc = "start"
    /\ ~authed
    /\ \E p \in PasswordInputs, b \in BOOLEAN :
          /\ pw' = p
          /\ pressed' = b
          /\ IF b /\ p = APP_PASSWORD
             THEN /\ authed' = TRUE
                  /\ authed_at_start' = TRUE
                  /\ pc' = "start"
                  /\ rendered' = {}
             ELSE /\ authed' = authed
                  /\ authed_at_start' = authed_at_start
                  /\ pc' = "stopped"
                  /\ rendered' = {"password_prompt"}
                        \cup (IF b THEN {"Incorrect password"} ELSE {})
    /\ UNCHANGED << files, error, df_complete, df_start,
                    selected_dataset_name, selected_artist, artist_df,
                    total_jobs, over_100, share, i, chart, table_df >>

\* header, then load both datasets inside try/except
LoadDatasets ==
    /\ pc = "start"
    /\ authed
    /\ LET c == LoadDataset(COMPLETE_CSV, files[COMPLETE_CSV])
           s == LoadDataset(START_CSV, files[START_CSV])
       IN IF c.exc # "none"
          THEN /\ error' = [c EXCEPT !.df = << >>]
               /\ rendered' = rendered \cup {"title", "error"}
               /\ pc' = "stopped"
               /\ UNCHANGED << df_complete, df_start >>
          ELSE IF s.exc # "none"
          THEN /\ error' = [s EXCEPT !.df = << >>]
               /\ rendered' = rendered \cup {"title", "error"}
               /\ pc' = "stopped"
               /\ df_complete' = c.df
               /\ UNCHANGED df_start
          ELSE /\ df_complete' = c.df
               /\ df_start' = s.df
               /\ rendered' = rendered \cup {"title"}
               /\ pc' = "controls"
               /\ UNCHANGED error
    /\ UNCHANGED << files, authed, authed_at_start, pw, pressed,
                    selected_dataset_name, selected_artist, artist_df,
                    total_jobs, over_100, share, i, chart, table_df >>

\* sorted(set(...) | set(...)) of the artist columns
AllArtists(dc, ds) ==
    SelectSeq(ArtistOrder,
              LAMBDA a : \E k \in 1..Len(dc \o ds) : (dc \o ds)[k].artist = a)

\* dataset radio and artist selectbox
Controls ==
    /\ pc = "controls"
    /\ LET all_artists == AllArtists(df_complete, df_start)
       IN /\ \E d \in Range(DATASETS) : selected_dataset_name' = d
          /\ IF all_artists = << >>
             THEN selected_artist' = "None"
             ELSE \E a \in Range(all_artists) : selected_artist' = a
    /\ rendered' = rendered \cup {"dataset_radio", "artist_selectbox"}
    /\ pc' = "normalize"
    /\ UNCHANGED << files, authed, authed_at_start, pw, pressed, error,
                    df_complete, df_start, artist_df, total_jobs, over_100,
                    share, i, chart, table_df >>

\* current_df = DATASETS[selected_dataset_name]
CurrentDf(name, dc, ds) == IF name = DATASETS[1] THEN dc ELSE ds

\* current_df[current_df["artist"] == selected_artist]
ArtistRaw(current_df, artist) ==
    SelectSeq(current_df, LAMBDA r : r.artist = artist)

\* the series of the artist: zero frame or ensure_all_buckets, then shares
ArtistDf(artist_raw) ==
    AddPercentShare(IF artist_raw = << >> THEN ZeroFrame
                    ELSE EnsureAllBuckets(artist_raw))

Normalize ==
    /\ pc = "normalize"
    /\ artist_df' = ArtistDf(ArtistRaw(
                        CurrentDf(selected_dataset_name, df_complete, df_start),
                        selected_artist))
    /\ pc' = "metrics"
    /\ UNCHANGED << files, authed, authed_at_start, pw, pressed, rendered,
                    error, df_complete, df_start, selected_dataset_name,
                    selected_artist, total_jobs, over_100, share, i, chart,
                    table_df >>

\* faulty variant: a zero total is shown as 0.0%
OverflowShare_ZeroPercent(over, total) ==
    IF total # 0
    THEN [kind |-> "percent", tenths |-> RoundScaled(Float(over * 100, total), 10)]
    ELSE [kind |-> "percent", tenths |-> 0]

\* f"{(over_100 / total_jobs * 100):.1f}%" if total_jobs else "—"
OverflowShare(over, total) ==
    IF total # 0
    THEN [kind |-> "percent", tenths |-> RoundScaled(Float(over * 100, total), 10)]
    ELSE [kind |-> "dash", tenths |-> 0]

Metrics ==
    /\ pc = "metrics"
    /\ LET total == SumJobs(artist_df)
           over == SumJobs(SelectSeq(artist_df, LAMBDA r : r.bucket = "z100+"))
       IN /\ total_jobs' = total
          /\ over_100' = over
          /\ share' = OverflowShare(over, total)
    /\ rendered' = rendered \cup {"metrics"}
    /\ i' = 0
    /\ pc' = "animate"
    /\ UNCHANGED << files, authed, authed_at_start, pw, pressed, error,
                    df_complete, df_start, selected_dataset_name,
                    selected_artist, artist_df, chart, table_df >>

\* faulty variant: the slice stops one row early
Partial_OffByOne(frame, n) == SubSeq(frame, 1, n - 1)

\* artist_df.iloc[:n]
Partial(frame, n) == SubSeq(frame, 1, n)

\* one iteration of for i in range(1, len(artist_df) + 1)
AnimateFrame ==
    /\ pc = "animate"
    /\ i < Len(artist_df)
    /\ i' = i + 1
    /\ chart' = BuildChart(Partial(artist_df, i + 1), selected_artist,
                           selected_dataset_name)
    /\ rendered' = rendered \cup {"chart"}
    /\ UNCHANGED << files, authed, authed_at_start, pw, pressed, pc, error,
                    df_complete, df_start, selected_dataset_name,
                    selected_artist, artist_df, total_jobs, over_100, share,
                    table_df >>

\* table_df of the expander
TableDf(frame) ==
    [k \in 1..Len(frame) |->
        [bucket |-> frame[k].bucket_label,
         jobs_count |-> frame[k].jobs_count,
         pct_share_percent |-> RoundScaled(frame[k].pct_share, 100)]]

\* the loop is exhausted; the expander with the table ends the script
DataTable ==
    /\ pc = "animate"
    /\ i >= Len(artist_df)
    /\ table_df' = TableDf(artist_df)
    /\ rendered' = rendered \cup {"data_table"}
    /\ pc' = "done"
    /\ UNCHANGED << files, authed, authed_at_start, pw, pressed, error,
                    df_complete, df_start, selected_dataset_name,
                    selected_artist, artist_df, total_jobs, over_100, share,
                    i, chart >>

Next ==
    \/ NewRun
    \/ PasswordWall
    \/ LoadDatasets
    \/ Controls
    \/ Normalize
    \/ Metrics
    \/ AnimateFrame
    \/ DataTable

Spec == Init /\ [][Next]_vars

\* ------------------------------------------------------------------------
\* Properties
\* ------------------------------------------------------------------------
\* path of the file behind DATASETS[selected_dataset_name]
SelectedPath == IF selected_dataset_name = DATASETS[1] THEN COMPLETE_CSV ELSE START_CSV

\* rows of the selected artist in the selected dataset, as load_dataset
\* returned them
SelectedRecords ==
    ArtistRaw(CurrentDf(selected_dataset_name, df_complete, df_start),
              selected_artist)

\* C1: whatever rows the file holds for the artist (none, one per bucket,
\* several for one bucket), the derived series has exactly 11 entries, one
\* per bucket of BUCKET_ORDER, in BUCKET_ORDER order.
C1_SeriesIsBucketOrder ==
    pc \in {"metrics", "animate", "done"} =>
        /\ Len(artist_df) = 11
        /\ \A k \in 1..Len(artist_df) :
              k <= Len(BUCKET_ORDER) /\ artist_df[k].bucket = BUCKET_ORDER[k]

\* C2: a bucket that several records of the artist carry has a single entry
\* in the derived series, holding the sum of those records' counts.
C2_DuplicatesAreSummed ==
    pc \in {"metrics", "animate", "done"} =>
        \A b \in Range(BUCKET_ORDER) :
            LET recs == SelectSeq(SelectedRecords, LAMBDA r : r.bucket = b)
                entries == SelectSeq(artist_df, LAMBDA e : e.bucket = b)
            IN Len(recs) > 1 =>
                  /\ Len(entries) = 1
                  /\ entries[1].jobs_count = SumJobs(recs)

\* C3: when every record of the selected artist carries a bucket code of
\* BUCKET_ORDER, the sum of jobs_count over the derived series, which is
\* total_jobs, equals the sum of jobs_count over the artist's records
\* (stated of the finished run; C10 shows the series is not changed after
\* it is derived).
C3_TotalIsPreserved ==
    ( /\ pc = "done"
      /\ \A k \in 1..Len(SelectedRecords) :
            SelectedRecords[k].bucket \in Range(BUCKET_ORDER) )
    => /\ total_jobs = SumJobs(SelectedRecords)
       /\ SumJobs(artist_df) = SumJobs(SelectedRecords)

\* the artist has two records for one bucket and a non-zero total, and the
\* run has shown the metrics
C3_Witness ==
    /\ pc = "done"
    /\ total_jobs = 4
    /\ Len(SelectedRecords) = 2
    /\ SelectedRecords[1].bucket = "00-10"
    /\ SelectedRecords[2].bucket = "00-10"

\* C4: with a series total above 0 every pct_share is jobs_count / total *
\* 100 and the shares add up to 100; with a total of 0 every pct_share is 0.
\* Shares are compared as exact fractions, on the series as derived.
C4_SharesOfTotal ==
    pc = "metrics" =>
        LET total == SumJobs(artist_df)
            nums == [k \in 1..Len(artist_df) |->
                        [jobs_count |-> artist_df[k].pct_share.num]]
        IN /\ total > 0 =>
                /\ \A k \in 1..Len(artist_df) :
                      /\ artist_df[k].pct_share.den = total
                      /\ artist_df[k].pct_share.num = artist_df[k].jobs_count * 100
                /\ SumJobs(nums) = 100 * total
           /\ total = 0 =>
                \A k \in 1..Len(artist_df) : artist_df[k].pct_share.num = 0

\* a series with a positive total spread over two buckets
C4_Witness ==
    /\ pc = "metrics"
    /\ SumJobs(artist_df) = 4
    /\ Len(artist_df) = 11
    /\ artist_df[1].pct_share = [num |-> 200, den |-> 4]
    /\ artist_df[11].pct_share = [num |-> 200, den |-> 4]

\* C5: every record load_dataset returns has a non-negative integer
\* jobs_count; a cell that is no number becomes 0 and the load succeeds.
C5_CountsAreNonNegative ==
    /\ \A k \in 1..Len(df_complete \o df_start) :
          (df_complete \o df_start)[k].jobs_count \in Nat
    /\ pc \in {"controls", "normalize", "metrics", "animate", "done"} =>
          \A x \in {COMPLETE_CSV, START_CSV} :
             LET d == IF x = COMPLETE_CSV THEN df_complete ELSE df_start
             IN \A k \in 1..Len(files[x].rows) :
                   files[x].rows[k].jobs_count.kind = "nan" => d[k].jobs_count = 0

\* C6: a row whose bucket is no label of BUCKET_ORDER raises nothing and
\* enters no entry of the series: the series is the one derived from the
\* file without such rows, and its buckets are the 11 labels.
C6_UnknownBucketIsDropped ==
    /\ (files[COMPLETE_CSV].status = "ok" /\ files[START_CSV].status = "ok")
          => error.exc = "none"
    /\ pc = "metrics" =>
          LET f == files[SelectedPath]
              known == [status |-> "ok",
                        rows |-> SelectSeq(f.rows,
                                   LAMBDA r : r.bucket \in Range(BUCKET_ORDER))]
          IN /\ artist_df = ArtistDf(ArtistRaw(LoadDataset(SelectedPath, known).df,
                                               selected_artist))
             /\ {artist_df[k].bucket : k \in 1..Len(artist_df)} = Range(BUCKET_ORDER)

\* the selected artist has a row with an unknown bucket next to a row of a
\* known bucket, and the run has finished
C6_Witness ==
    /\ pc = "metrics"
    /\ \E j, k \in 1..Len(files[SelectedPath].rows) :
          /\ files[SelectedPath].rows[j].artist = selected_artist
          /\ files[SelectedPath].rows[j].bucket = "unknown-code"
          /\ files[SelectedPath].rows[j].jobs_count.kind = "num"
          /\ files[SelectedPath].rows[k].artist = selected_artist
          /\ files[SelectedPath].rows[k].bucket = "z100+"
          /\ files[SelectedPath].rows[k].jobs_count.kind = "num"

\* C7: an artist without rows in the selected dataset gets 11 entries of
\* count 0 and share 0, total_jobs 0, over_100 0, and the overflow share is
\* the placeholder, not a quotient.
C7_AbsentArtistIsAllZero ==
    ( /\ pc = "done"
      /\ \A k \in 1..Len(files[SelectedPath].rows) :
            files[SelectedPath].rows[k].artist # selected_artist )
    => /\ Len(artist_df) = 11
       /\ \A k \in 1..Len(artist_df) :
             /\ artist_df[k].jobs_count = 0
             /\ artist_df[k].pct_share = [num |-> 0, den |-> 1]
       /\ total_jobs = 0
       /\ over_100 = 0
       /\ share = [kind |-> "dash", tenths |-> 0]

\* an artist of the other dataset is selected in a dataset without them
C7_Witness ==
    /\ pc = "done"
    /\ selected_artist = "Bob"
    /\ selected_dataset_name = "Time to complete"
    /\ Len(files[COMPLETE_CSV].rows) = 1
    /\ files[COMPLETE_CSV].rows[1].artist = "Ann"
    /\ share.kind = "dash"

\* C8: with a data source missing or without the required columns, no run
\* renders a selector, metric, chart or table, and a run that reaches the
\* loading code shows the error and stops.
C8_LoadFailureBlocksDashboard ==
    (files[COMPLETE_CSV].status # "ok" \/ files[START_CSV].status # "ok")
    => /\ rendered \cap {"dataset_radio", "artist_selectbox", "metrics",
                         "chart", "data_table"} = {}
       /\ pc \in {"start", "stopped"}
       /\ (pc = "stopped" /\ authed_at_start) =>
             /\ "error" \in rendered
             /\ error.exc \in {"FileNotFoundError", "ValueError"}
             /\ files[error.path].status # "ok"

\* the first source loaded, the second lacks a column, the run has stopped
C8_Witness ==
    /\ pc = "stopped"
    /\ authed_at_start
    /\ files[COMPLETE_CSV].status = "ok"
    /\ Len(files[COMPLETE_CSV].rows) > 0
    /\ files[START_CSV].status = "noschema"
    /\ "error" \in rendered

\* C9: the dashboard is reached only in a run that began with authed true;
\* authed turns true only on "Enter" with the configured password; a wrong
\* password leaves it false and the next run prompts again; once true it is
\* never set back.
C9_PasswordWall ==
    /\ [](( \/ pc \in {"controls", "normalize", "metrics", "animate", "done"}
            \/ rendered \cap {"title", "error", "dataset_radio",
                              "artist_selectbox", "metrics", "chart",
                              "data_table"} # {} )
          => (authed /\ authed_at_start))
    /\ [][ /\ (~authed /\ authed') => (pressed' /\ pw' = APP_PASSWORD)
           /\ (pc = "start" /\ ~authed /\ ~(pressed' /\ pw' = APP_PASSWORD))
                => (~authed' /\ pc' = "stopped" /\ "password_prompt" \in rendered')
           /\ (pc = "start" /\ ~authed /\ pressed' /\ pw' # APP_PASSWORD)
                => "Incorrect password" \in rendered'
           /\ authed => authed' ]_vars

\* a run of an authenticated session has rendered the whole dashboard
C9_Witness ==
    /\ pc = "done"
    /\ authed
    /\ pw = APP_PASSWORD
    /\ "chart" \in rendered

\* C10: the loop runs one frame per entry of the series and then ends; frame
\* i shows the first i entries in order, the last frame the whole series;
\* the loop leaves the series as it was.
C10_AnimationFrames ==
    /\ []((pc = "animate" /\ i >= 1) =>
            chart = BuildChart(SubSeq(artist_df, 1, i), selected_artist,
                               selected_dataset_name))
    /\ [](pc = "animate" => i <= Len(artist_df))
    /\ [](pc = "done" =>
            /\ i = Len(artist_df)
            /\ chart = BuildChart(artist_df, selected_artist,
                                  selected_dataset_name))
    /\ [][pc = "animate" =>
            /\ artist_df' = artist_df
            /\ pc' = "animate" => i' = i + 1
            /\ pc' = "done" => (i' = i /\ chart' = chart)
            /\ pc' \in {"animate", "done"} ]_vars

\* the loop has ended after 11 frames and the figure shows 11 bars
C10_Witness ==
    /\ pc = "done"
    /\ i = 11
    /\ Len(chart.bars) = 11
    /\ chart.bars[1].y = 2
    /\ chart.bars[11].y = -1
====
